---- MODULE Spec2Model ----
(***************************************************************************)
(* Card click wiring of the product grid (src/script.js).                  *)
(*                                                                         *)
(* The script runs two loops over the document: the first adds a click     *)
(* listener to every element matching .product-link, the second adds a     *)
(* click listener to every element matching .product-card.  A click is     *)
(* dispatched by the browser at its target and bubbles through the         *)
(* target's ancestors, running the listeners of each element in the order  *)
(* they were added.                                                        *)
(*                                                                         *)
(* The page is a forest of elements; every element carries a subset of     *)
(* the two class names the script selects on.  Three specifications share  *)
(* the script and differ in the pages the renderer may build:              *)
(*   Spec     pages laid out as the grid's markup lays them out: cards     *)
(*            side by side, each holding at most one .product-link;        *)
(*   SpecNested  the same, with cards allowed inside cards;                *)
(*   SpecAny  every nesting of cards, links and plain elements.            *)
(***************************************************************************)
EXTENDS Integers, Sequences, FiniteSets

\* ---- bounds ----
MaxNodes == 3
MaxBinds == 2

\* ---- the page ----
Node == 1..MaxNodes
Document == 0

CardClass == "product-card"
LinkClass == "product-link"
Plain == {}
\* An element is a card, a link, or neither.
ClassSets == {Plain, {CardClass}, {LinkClass}}

LinkMsg == "Product link clicked"
CardMsg == "Card clicked"

VARIABLES
    present,    \* elements in the document
    parent,     \* parent[n]: parent element, Document for a top-level one
    cls,        \* cls[n]: the selected class names n carries
    listeners,  \* listeners[n]: click listeners added to n, in order
    binds,      \* how many times the script has run
    bornAt,     \* bornAt[n]: value of binds when n was rendered
    error,      \* TRUE once a run of the script has thrown
    lastClick   \* the last click dispatched since the page or the listeners
                \* changed, NoClick when there is none

vars == <<present, parent, cls, listeners, binds, bornAt, error, lastClick>>

NoClick == [target |-> Document, out |-> <<>>]

\* The propagation path of an event at n: n, its parent, ... up to the root.
RECURSIVE Path(_)
Path(n) == IF n = Document THEN <<>> ELSE <<n>> \o Path(parent[n])

PathSet(n) == {Path(n)[i] : i \in 1..Len(Path(n))}

\* n and its descendants.
Subtree(n) == {m \in present : n \in PathSet(m)}

\* Mutant of Closest: the search starts at the parent, not at the element.
RECURSIVE ClosestProper(_, _)
ClosestProper(n, c) ==
    IF n = Document THEN Document
    ELSE LET p == parent[n] IN
         IF p = Document THEN Document
         ELSE IF c \in cls[p] THEN p ELSE ClosestProper(p, c)

\* Element.closest(selector): the nearest ancestor-or-self carrying class c,
\* Document standing for null.
RECURSIVE Closest(_, _)
Closest(n, c) ==
    IF n = Document THEN Document
    ELSE IF c \in cls[n] THEN n ELSE Closest(parent[n], c)

\* Mutant of QuerySelectorAll: the selector matches every element.
QuerySelectorAllStar(c) == present

\* document.querySelectorAll(selector)
QuerySelectorAll(c) == {n \in present : c \in cls[n]}

\* NodeList.forEach never throws, whatever the length of the list.
ForEachThrows(list) == FALSE

\* ---- the listeners ----
\* script.js 3-6: the listener on a .product-link.
LinkListener(cur, target) == <<[on |-> cur, msg |-> LinkMsg]>>

\* Mutant of CardListener: the guard is inverted.
CardListenerInverted(cur, target) ==
    IF Closest(target, LinkClass) # Document
    THEN <<[on |-> cur, msg |-> CardMsg]>>
    ELSE <<>>

\* Mutant of CardListener: only a link that carries a listener suppresses
\* the card message, as if the card's link had been looked up when the
\* script ran.
CardListenerBoundLink(cur, target) ==
    IF \/ Closest(target, LinkClass) = Document
       \/ listeners[Closest(target, LinkClass)] = <<>>
    THEN <<[on |-> cur, msg |-> CardMsg]>>
    ELSE <<>>

\* script.js 11-16: the listener on a .product-card.
CardListener(cur, target) ==
    IF Closest(target, LinkClass) = Document
    THEN <<[on |-> cur, msg |-> CardMsg]>>
    ELSE <<>>

Invoke(kind, cur, target) ==
    IF kind = "link" THEN LinkListener(cur, target) ELSE CardListener(cur, target)

RECURSIVE RunListeners(_, _, _)
RunListeners(ls, cur, target) ==
    IF ls = <<>> THEN <<>>
    ELSE Invoke(Head(ls), cur, target) \o RunListeners(Tail(ls), cur, target)

\* Mutant of Propagate: a listener that emitted stops the propagation.
RECURSIVE PropagateStopped(_, _)
PropagateStopped(path, target) ==
    IF path = <<>> THEN <<>>
    ELSE LET here == RunListeners(listeners[Head(path)], Head(path), target)
         IN  IF here # <<>> THEN here
             ELSE PropagateStopped(Tail(path), target)

RECURSIVE Propagate(_, _)
Propagate(path, target) ==
    IF path = <<>> THEN <<>>
    ELSE RunListeners(listeners[Head(path)], Head(path), target)
         \o Propagate(Tail(path), target)

RECURSIVE RunEvery(_, _)
RunEvery(ns, target) ==
    IF ns = {} THEN <<>>
    ELSE LET n == CHOOSE x \in ns : \A y \in ns : x <= y IN
         RunListeners(listeners[n], n, target) \o RunEvery(ns \ {n}, target)

\* Mutant of Dispatch: every listener of the document runs, wherever the
\* click landed.
DispatchEverywhere(target) == RunEvery(present, target)

\* Mutant of Dispatch: the listeners of the target alone run, the click does
\* not bubble.
DispatchAtTarget(target) == Propagate(<<target>>, target)

\* What one click at target makes the listeners emit.
Dispatch(target) == Propagate(Path(target), target)

\* ---- the script ----
\* Mutant of Registered: a listener is added only where none is yet.
RegisteredOnce(n) ==
    IF listeners[n] # <<>> THEN listeners[n]
    ELSE (IF n \in QuerySelectorAll(LinkClass) THEN <<"link">> ELSE <<>>)
         \o (IF n \in QuerySelectorAll(CardClass) THEN <<"card">> ELSE <<>>)

\* The listeners of n after one run of the script: the first loop has added
\* the link listeners before the second loop adds the card listeners.
Registered(n) ==
    listeners[n]
    \o (IF n \in QuerySelectorAll(LinkClass) THEN <<"link">> ELSE <<>>)
    \o (IF n \in QuerySelectorAll(CardClass) THEN <<"card">> ELSE <<>>)

Bind ==
    /\ binds < MaxBinds
    /\ binds' = binds + 1
    /\ listeners' = [n \in Node |-> Registered(n)]
    /\ error' = (error \/ ForEachThrows(QuerySelectorAll(LinkClass))
                       \/ ForEachThrows(QuerySelectorAll(CardClass)))
    /\ lastClick' = NoClick
    /\ UNCHANGED <<present, parent, cls, bornAt>>

\* Mutant of AfterDispatch: the listeners were added with { once: true } and
\* leave the elements they ran on.
AfterDispatchOnce(t) ==
    [n \in Node |-> IF n \in PathSet(t) THEN <<>> ELSE listeners[n]]

\* The listeners after a click at t: both are added without options and
\* neither removes a listener, so all of them stay.
AfterDispatch(t) == listeners

Click(t) ==
    /\ t \in present
    /\ lastClick' = [target |-> t, out |-> Dispatch(t)]
    /\ listeners' = AfterDispatch(t)
    /\ UNCHANGED <<present, parent, cls, binds, bornAt, error>>

\* ---- the renderer ----
FreshNode == CHOOSE n \in Node \ present : \A m \in Node \ present : n <= m

LinksIn(c) == {v \in Subtree(c) \ {c} : LinkClass \in cls[v]}

\* The grid's markup: cards are not nested in cards or links, a link sits
\* inside a card that has no link yet, plain elements go anywhere.
GridMarkup(p, c) ==
    \/ c = Plain
    \/ /\ c = {CardClass}
       /\ Closest(p, CardClass) = Document
       /\ Closest(p, LinkClass) = Document
    \/ /\ c = {LinkClass}
       /\ Closest(p, CardClass) # Document
       /\ LinksIn(Closest(p, CardClass)) = {}

Insert(p, c) ==
    /\ present # Node
    /\ p \in present \cup {Document}
    /\ present' = present \cup {FreshNode}
    /\ parent' = [parent EXCEPT ![FreshNode] = p]
    /\ cls' = [cls EXCEPT ![FreshNode] = c]
    /\ bornAt' = [bornAt EXCEPT ![FreshNode] = binds]
    /\ lastClick' = NoClick
    /\ UNCHANGED <<listeners, binds, error>>

\* The grid's markup with cards allowed inside cards: a card goes anywhere
\* outside a link, a link sits inside a card and outside any other link,
\* and its nearest card holds no link yet.
NestedMarkup(p, c) ==
    \/ c = Plain
    \/ /\ c = {CardClass}
       /\ Closest(p, LinkClass) = Document
    \/ /\ c = {LinkClass}
       /\ Closest(p, CardClass) # Document
       /\ Closest(p, LinkClass) = Document
       /\ LinksIn(Closest(p, CardClass)) = {}

Render(p, c) == GridMarkup(p, c) /\ Insert(p, c)

RenderNested(p, c) == NestedMarkup(p, c) /\ Insert(p, c)

RenderAny(p, c) == Insert(p, c)

\* A full re-render: the grid's elements are discarded, and the listeners
\* on them with them.
Clear ==
    /\ present # {}
    /\ present' = {}
    /\ parent' = [n \in Node |-> Document]
    /\ cls' = [n \in Node |-> Plain]
    /\ listeners' = [n \in Node |-> <<>>]
    /\ bornAt' = [n \in Node |-> 0]
    /\ lastClick' = NoClick
    /\ UNCHANGED <<binds, error>>

Init ==
    /\ present = {}
    /\ parent = [n \in Node |-> Document]
    /\ cls = [n \in Node |-> Plain]
    /\ listeners = [n \in Node |-> <<>>]
    /\ binds = 0
    /\ bornAt = [n \in Node |-> 0]
    /\ error = FALSE
    /\ lastClick = NoClick

Next ==
    \/ Bind
    \/ \E t \in Node : Click(t)
    \/ \E p \in Node \cup {Document}, c \in ClassSets : Render(p, c)
    \/ Clear

NextAny ==
    \/ Bind
    \/ \E t \in Node : Click(t)
    \/ \E p \in Node \cup {Document}, c \in ClassSets : RenderAny(p, c)
    \/ Clear

NextNested ==
    \/ Bind
    \/ \E t \in Node : Click(t)
    \/ \E p \in Node \cup {Document}, c \in ClassSets : RenderNested(p, c)
    \/ Clear

Spec == Init /\ [][Next]_vars

SpecNested == Init /\ [][NextNested]_vars

SpecAny == Init /\ [][NextAny]_vars

TypeOK ==
    /\ present \subseteq Node
    /\ parent \in [Node -> Node \cup {Document}]
    /\ cls \in [Node -> ClassSets]
    /\ binds \in 0..MaxBinds
    /\ error \in BOOLEAN
    /\ lastClick.target \in Node \cup {Document}

\* ---- vocabulary of the properties ----
IsCard(n) == n \in present /\ CardClass \in cls[n]

Clicked == IF lastClick = NoClick THEN {} ELSE {lastClick}

Count(out, m) == Cardinality({i \in 1..Len(out) : out[i].msg = m})

Msgs(out) == [i \in 1..Len(out) |-> out[i].msg]

OnSet(out) == {out[i].on : i \in 1..Len(out)}

\* r landed on, or inside, element n.
Within(r, n) == n \in PathSet(r.target)

\* r landed in card c and outside every .product-link that c holds.
OutsideLinks(r, c) == Within(r, c) /\ \A v \in LinksIn(c) : ~Within(r, v)

\* C1: after one run of the script, a click on a card's .product-link or on
\* any descendant of it emits the link message exactly once and the card
\* message never; the link itself counts as inside the link.
C1_AffordanceOnly ==
    binds = 1 =>
        \A r \in Clicked, c \in present :
            IsCard(c) =>
                \A v \in LinksIn(c) :
                    (bornAt[v] = 0 /\ Within(r, v)) =>
                        /\ Count(r.out, LinkMsg) = 1
                        /\ Count(r.out, CardMsg) = 0

C1_Witness ==
    /\ binds = 1
    /\ \E c \in present : IsCard(c) /\
          \E v \in LinksIn(c) :
              /\ bornAt[v] = 0
              /\ Subtree(v) # {v}
              /\ lastClick.target = v
              /\ Msgs(lastClick.out) = <<LinkMsg>>

\* C2: after one run of the script, a click inside a card that is neither on
\* the card's .product-link nor inside it emits the card message exactly once
\* and the link message never.
C2_CardOnly ==
    binds = 1 =>
        \A r \in Clicked, c \in present :
            (IsCard(c) /\ bornAt[c] = 0 /\ OutsideLinks(r, c)) =>
                /\ Count(r.out, CardMsg) = 1
                /\ Count(r.out, LinkMsg) = 0

C2_Witness ==
    /\ binds = 1
    /\ \E r \in Clicked, c \in present :
          /\ IsCard(c)
          /\ bornAt[c] = 0
          /\ LinksIn(c) # {}
          /\ r.target # c
          /\ OutsideLinks(r, c)
          /\ Msgs(r.out) = <<CardMsg>>

\* C3: a click whose target is inside no card emits nothing, whatever
\* element the target is.
C3_NoActionOutsideCards ==
    \A r \in Clicked :
        Closest(r.target, CardClass) = Document => r.out = <<>>

\* C4: a card holding no .product-link has no link listener on it or inside
\* it, has its card listener once the script has run over it, and a click
\* anywhere inside it emits the card message exactly once and no link message.
C4_CardWithoutAffordance ==
    \A c \in present :
        (IsCard(c) /\ LinksIn(c) = {}) =>
            /\ \A m \in Subtree(c) :
                   \A i \in 1..Len(listeners[m]) : listeners[m][i] # "link"
            /\ (binds = 1 /\ bornAt[c] = 0) => listeners[c] = <<"card">>
            /\ \A r \in Clicked :
                   Within(r, c) =>
                       /\ Count(r.out, LinkMsg) = 0
                       /\ (binds = 1 /\ bornAt[c] = 0) => Count(r.out, CardMsg) = 1

C4_Witness ==
    /\ binds = 1
    /\ \E c \in present :
          /\ IsCard(c)
          /\ LinksIn(c) = {}
          /\ bornAt[c] = 0
          /\ lastClick.target \in Subtree(c) \ {c}
          /\ Msgs(lastClick.out) = <<CardMsg>>

\* C5: running the script over a page with no card and no link adds no
\* listener and throws nothing, and afterwards no click emits anything.
C5_EmptyBinding ==
    (binds >= 1 /\ \A n \in present : cls[n] = Plain)
        => /\ \A n \in Node : listeners[n] = <<>>
           /\ ~error
           /\ \A r \in Clicked : r.out = <<>>

C5_Witness ==
    /\ binds >= 1
    /\ present # {}
    /\ \A n \in present : cls[n] = Plain /\ bornAt[n] = 0
    /\ lastClick # NoClick
    /\ ~error

\* C6: after n >= 1 runs of the script over elements that were all there
\* before the first run, one click emits its one applicable message exactly
\* n times, the other message never, and nothing has thrown.
C6_RebindMultiplies ==
    binds >= 1 =>
        /\ ~error
        /\ \A r \in Clicked :
               (\A m \in PathSet(r.target) : bornAt[m] = 0) =>
                   /\ Closest(r.target, LinkClass) # Document =>
                          /\ Count(r.out, LinkMsg) = binds
                          /\ Count(r.out, CardMsg) = 0
                   /\ (/\ Closest(r.target, LinkClass) = Document
                       /\ Closest(r.target, CardClass) # Document) =>
                          /\ Count(r.out, CardMsg) = binds
                          /\ Count(r.out, LinkMsg) = 0

C6_Witness ==
    /\ binds = 2
    /\ \A m \in PathSet(lastClick.target) : bornAt[m] = 0
    /\ Closest(lastClick.target, CardClass) # Document
    /\ Msgs(lastClick.out) = <<LinkMsg, LinkMsg>>

\* C7: what a click emits identifies the card it landed in: clicks in two
\* different cards emit distinguishable output.
C7_ActionCarriesIdentity ==
    [][(/\ lastClick.out # <<>>
        /\ lastClick'.out # <<>>
        /\ Closest(lastClick.target, CardClass)
             # Closest(lastClick'.target, CardClass))
           => Msgs(lastClick.out) # Msgs(lastClick'.out)]_vars

\* C8: an element rendered after the last run of the script has no listener,
\* a click inside a card rendered after the last run emits nothing, and a
\* click inside a card the script has run over still emits that card's
\* message, or the message of a link the script has run over.
C8_BoundAtBindTimeOnly ==
    /\ \A n \in present : bornAt[n] = binds => listeners[n] = <<>>
    /\ \A r \in Clicked :
           LET c == Closest(r.target, CardClass)
               v == Closest(r.target, LinkClass)
           IN  c # Document =>
                   /\ bornAt[c] = binds => r.out = <<>>
                   /\ (bornAt[c] < binds /\ v = Document) =>
                          Count(r.out, CardMsg) = binds - bornAt[c]
                   /\ (bornAt[c] < binds /\ v # Document /\ bornAt[v] < binds) =>
                          Count(r.out, LinkMsg) = binds - bornAt[v]

C8_Witness ==
    /\ binds >= 1
    /\ LET d == Closest(lastClick.target, CardClass)
       IN  /\ d # Document
           /\ bornAt[d] = binds
           /\ lastClick.out = <<>>
           /\ \E c \in present :
                  IsCard(c) /\ bornAt[c] < binds /\ listeners[c] # <<>>

\* C9: for two cards neither of which contains the other, a click inside one
\* runs no listener added to the other or to a link inside the other.
C9_CardsIndependent ==
    \A r \in Clicked, c \in present, d \in present :
        (/\ IsCard(c) /\ IsCard(d) /\ c # d
         /\ c \notin Subtree(d) /\ d \notin Subtree(c)
         /\ Within(r, c))
            => OnSet(r.out) \cap ({d} \cup LinksIn(d)) = {}

C9_Witness ==
    \E r \in Clicked, c \in present, d \in present :
        /\ IsCard(c) /\ IsCard(d) /\ c # d
        /\ c \notin Subtree(d) /\ d \notin Subtree(c)
        /\ Within(r, c)
        /\ listeners[d] # <<>>
        /\ r.out # <<>>

\* C10: in every page structure, the listener on card c emits the card
\* message exactly when the click target is neither c's own .product-link nor
\* inside it.
C10_OwnAffordanceDecides ==
    \A r \in Clicked, c \in present :
        (/\ IsCard(c)
         /\ Within(r, c)
         /\ \E i \in 1..Len(listeners[c]) : listeners[c][i] = "card")
            => ((\E i \in 1..Len(r.out) : r.out[i].on = c /\ r.out[i].msg = CardMsg)
                <=> \A v \in Subtree(c) : LinkClass \in cls[v] => ~Within(r, v))

\* C11: a click changes no listener, so every target emits after the click
\* what it emitted before it, and a click repeated on the same target emits
\* what the click before it emitted.
C11_ClickChangesNothing ==
    [][lastClick' # NoClick =>
          /\ listeners' = listeners
          /\ \A t \in present : Dispatch(t)' = Dispatch(t)
          /\ lastClick'.target = lastClick.target =>
                 lastClick'.out = lastClick.out]_vars

C11_Witness ==
    /\ lastClick # NoClick
    /\ lastClick.out # <<>>
    /\ Dispatch(lastClick.target) = lastClick.out
    /\ \E t \in present : t # lastClick.target /\ Dispatch(t) # <<>>

\* C12: a .product-link added inside a card after the script ran over the
\* card has no listener, and it still silences the card's listener: a click
\* on it, or inside it, emits nothing.
C12_LateAffordanceSilent ==
    \A r \in Clicked, c \in present :
        (IsCard(c) /\ listeners[c] # <<>>) =>
            \A v \in LinksIn(c) :
                (bornAt[v] = binds /\ Within(r, v)) => r.out = <<>>

C12_Witness ==
    \E c \in present :
        /\ IsCard(c)
        /\ listeners[c] # <<>>
        /\ \E v \in LinksIn(c) :
               /\ bornAt[v] = binds
               /\ lastClick.target = v
               /\ lastClick.out = <<>>

\* The cards around n, innermost first.
EnclosingCards(n) == SelectSeq(Path(n), LAMBDA m : CardClass \in cls[m])

\* C13: with a card inside a card, each run over once by the script, a click
\* inside the inner card and outside every link emits the card message once
\* per enclosing card, inner card first; a click on or inside a link emits
\* no card message.
C13_NestedCardsAllFire ==
    \A r \in Clicked :
        LET cards == EnclosingCards(r.target) IN
        Len(cards) >= 2 =>
            /\ (/\ Closest(r.target, LinkClass) = Document
                /\ \A i \in 1..Len(cards) : listeners[cards[i]] = <<"card">>)
                   => r.out = [i \in 1..Len(cards) |->
                                  [on |-> cards[i], msg |-> CardMsg]]
            /\ Closest(r.target, LinkClass) # Document
                   => Count(r.out, CardMsg) = 0

C13_Witness ==
    LET cards == EnclosingCards(lastClick.target) IN
    /\ Len(cards) = 2
    /\ Closest(lastClick.target, LinkClass) = Document
    /\ \A i \in 1..2 : listeners[cards[i]] = <<"card">>
    /\ LinksIn(cards[1]) # {}
    /\ Msgs(lastClick.out) = <<CardMsg, CardMsg>>
    /\ lastClick.out[1].on = cards[1]
    /\ lastClick.out[2].on = cards[2]

====
